---- MODULE Spec2Model ----
(***************************************************************************)
(* A model of the Linux Bluetooth access layer of bluetooth/bt.c:          *)
(* bt_open_device, bt_close_device, bt_bind, the LE advertising commands   *)
(* and bt_parse_le_meta_event.  The kernel and the controller are external *)
(* collaborators: the outcome of each system call is chosen when the call  *)
(* is made and recorded in the log `syscalls` of the API call under way.   *)
(* Spec is one API call by a caller; SpecAdv is one advertising command on *)
(* an open controller; SpecDev is a sequence of open, close and            *)
(* advertising calls.                                                      *)
(***************************************************************************)
EXTENDS Integers, Sequences, FiniteSets, TLC

(* ---------------- program constants (bt.c:31-36, 306) ----------------- *)
kMaxLEPayloadSize == 26
kMaxChannel == 30
kMaxDevices == 5
kMaxNameLength == 31
HCI_EVENT_HDR_SIZE == 2
EIR_FLAGS == 1
EIR_NAME_SHORT == 8
EIR_NAME_COMPLETE == 9

(* ---------------- bounds of the model --------------------------------- *)
\* supplied addresses are the addresses of devices 0..MaxAddrArg
MaxAddrArg == 1
\* supplied channels are 0..MaxChannelArg
MaxChannelArg == 2
\* bt_open_device is called with dev_id in -MaxNegDevId..MaxDevIdArg
MaxNegDevId == 2
MaxDevIdArg == 1
\* the uninitialised loc_addr holds one of the values 0..MaxStackByte in
\* every octet
MaxStackByte == 0
\* EIR data of a parsed event has at most MaxEirLen bytes
MaxEirLen == 3
\* EIR data built of records holds at most MaxRecords records
MaxRecords == 2
\* the iterations of the parser's loop are counted up to MaxIters
MaxIters == 4
\* advertising payloads have 0..MaxPayloadLen bytes
MaxPayloadLen == 27
\* advertising intervals are 100, 200, .. 100 * MaxIntervalArg
MaxIntervalArg == 2
\* descriptor arguments are CallerSock..CallerSock + MaxDdArg
MaxDdArg == 3
\* a caller of SpecDev makes at most MaxCalls calls
MaxCalls == 4

VARIABLES
  pc,             \* "idle", "running", "returned", "crashed" (process killed)
  fn,             \* the API function the caller called
  stack,          \* the frames of the call, innermost last: the line each is at
  err,            \* the value returned by the frame that returned last
  local_address,  \* the caller's *local_address: [state, str]
  channel,        \* the caller's *channel
  in_local_address, \* *local_address as passed by the caller
  in_channel,     \* *channel as passed by the caller
  dev_id,         \* bt_bind's dev_id / bt_open_device's argument
  dd,             \* the location bt_open_device stores the descriptor in
  name,           \* the location bt_open_device stores the name in: "NULL"/"set"
  fds,            \* the descriptors open in the process
  bound,          \* the <<bdaddr, channel>> the caller's socket is bound to
  heap,           \* outstanding allocations made by the module, by kind
  syscalls,       \* log of the system / library calls made, in order
  data,           \* the buffer given to bt_parse_le_meta_event
  char_signed,    \* whether plain char is signed in this build
  ptr,            \* the parser's read position: offset into data
  out,            \* the parser's outputs: [addr, name, rssi, done]
  err_arg,        \* the number formatted into the parser's error message
  copy,           \* the parser's last memcpy: <<>> or <<[src, n, type]>>
  iters,          \* the iterations of the parser's loop, counted to MaxIters
  adv,            \* the controller's advertising state: [enable, params, data]
  hcidev,         \* the open descriptors that are controller channels
  closed,         \* the descriptors bt_close_device closed, not reopened since
  ncalls,         \* the number of API calls the caller has made
  arg,            \* the arguments of the advertising / close call under way
  prev            \* the caller's previous call: [fn, dd, err]

vars == <<pc, fn, stack, err, local_address, channel, in_local_address,
          in_channel, dev_id, dd, name, fds, bound, heap, syscalls, data,
          char_signed, ptr, out, err_arg, copy, iters, adv, hcidev, closed, ncalls,
          arg, prev>>

bindVars == <<local_address, channel, in_local_address, in_channel, bound>>
parseVars == <<data, char_signed, ptr, out, err_arg, copy, iters>>
devVars == <<adv, hcidev, closed, ncalls, arg, prev>>

(* ---------------- addresses ------------------------------------------- *)
\* a bdaddr_t is six octets b[0..5]; its text is twelve hex digits, the
\* octets printed from b[5] down to b[0] (the colons are left out)
ba2str(ba) ==
  [i \in 1..12 |->
     LET b == ba[6 - ((i - 1) \div 2)]
     IN  IF i % 2 = 1 THEN b \div 16 ELSE b % 16]

str2ba(s) ==
  [j \in 1..6 |-> 16 * s[2 * (6 - j) + 1] + s[2 * (6 - j) + 2]]

\* the address the controller with this id reports (hci_devba)
DevAddr(d) == <<17 + d, 34, 51, 68, 85, 160 + d>>

\* what an uninitialised bdaddr_t on the stack may hold
StackAddrs == {[i \in 1..6 |-> v] : v \in 0..MaxStackByte}

NullStr == [state |-> "null", str |-> <<>>]
LiveStr(s) == [state |-> "live", str |-> s]
FreedStr(p) == [state |-> "freed", str |-> p.str]

(* ---------------- descriptors and the log ------------------------------ *)
\* the caller's RFCOMM socket: the first descriptor after the standard streams
CallerSock == 3

\* the kernel hands out the lowest free descriptor number
NewFd(F) == CHOOSE n \in CallerSock..(CallerSock + Cardinality(F)) :
              /\ n \notin F
              /\ \A m \in CallerSock..(n - 1) : m \in F

Sys(call, fd, addr, n, ok) ==
  [call |-> call, fd |-> fd, addr |-> addr, n |-> n, ok |-> ok]

Alloc(h, kind) == [h EXCEPT ![kind] = @ + 1]
Free(h, kind) == [h EXCEPT ![kind] = @ - 1]

(* ---------------- bt_open_device (bt.c:38-85) -------------------------- *)
\* One result of bt_open_device: what it returned and what it left behind.
OpenResult(crash, e, log, F, DD, NM, LA, H) ==
  [crash |-> crash, err |-> e, log |-> log, fds |-> F, dd |-> DD,
   name |-> NM, local_address |-> LA, heap |-> H]

\* bt.c:45-48: asprintf is handed err itself, a null pointer, where it
\* expects the address of err.  The store through it is undefined: the
\* process is killed, or the store is lost and err, still NULL, is returned.
OpenNegative(d, F, H, DD, NM, LA) ==
  { OpenResult(TRUE, "NULL", <<>>, F, DD, NM, LA, H),
    OpenResult(FALSE, "NULL", <<>>, F, DD, NM, LA, H) }

\* bt.c:51-54
OpenSocketFails(d, F, H, DD, NM, LA) ==
  { OpenResult(FALSE, "SocketError",
               <<Sys("socket", -1, <<>>, d, FALSE)>>,
               F, DD, NM, LA, Alloc(H, "err")) }

\* bt.c:57-62
OpenDevInfoFails(d, F, H, DD, NM, LA) ==
  LET s == NewFd(F)
  IN  { OpenResult(FALSE, "DeviceInfoError",
                   <<Sys("socket", s, <<>>, d, TRUE),
                     Sys("HCIGETDEVINFO", s, <<>>, d, FALSE),
                     Sys("close", s, <<>>, d, TRUE)>>,
                   F, DD, NM, LA, Alloc(H, "err")) }

\* bt.c:63-64: the name is copied into a block one byte too small.  The
\* store past the block lands in the allocator's slack, or is trapped.
OpenNameOverrunTrapped(d, F, H, DD, NM, LA) ==
  LET s == NewFd(F)
  IN  { OpenResult(TRUE, "NULL",
                   <<Sys("socket", s, <<>>, d, TRUE),
                     Sys("HCIGETDEVINFO", s, <<>>, d, TRUE)>>,
                   F \cup {s}, DD, "set", LA, Alloc(H, "name")) }

\* bt.c:67-73: *dd holds the negative result, the name stays allocated
OpenDevFails(d, F, H, DD, NM, LA) ==
  LET s == NewFd(F)
  IN  { OpenResult(FALSE, "OpenError",
                   <<Sys("socket", s, <<>>, d, TRUE),
                     Sys("HCIGETDEVINFO", s, <<>>, d, TRUE),
                     Sys("HCIDEVUP", s, <<>>, d, TRUE),
                     Sys("hci_open_dev", -1, <<>>, d, FALSE),
                     Sys("close", s, <<>>, d, TRUE)>>,
                   F, -1, "set", LA, Alloc(Alloc(H, "name"), "err")) }

\* bt.c:67-84: the raw HCI socket s is not closed on this path.  hci_devba
\* fails when the controller is down and then leaves loc_addr as it was.
OpenSucceeds(d, F, H, DD, NM, LA) ==
  LET s == NewFd(F)
      t == NewFd(F \cup {s})
      pre == <<Sys("socket", s, <<>>, d, TRUE),
               Sys("HCIGETDEVINFO", s, <<>>, d, TRUE),
               Sys("HCIDEVUP", s, <<>>, d, TRUE),
               Sys("hci_open_dev", t, <<>>, d, TRUE)>>
      H2 == Alloc(Alloc(H, "name"), "addr")
  IN  { OpenResult(FALSE, "NULL",
                   Append(pre, Sys("hci_devba", -1, DevAddr(d), d, TRUE)),
                   F \cup {s, t}, t, "set", LiveStr(ba2str(DevAddr(d))), H2) }
      \cup
      { OpenResult(FALSE, "NULL",
                   Append(pre, Sys("hci_devba", -1, g, d, FALSE)),
                   F \cup {s, t}, t, "set", LiveStr(ba2str(g)), H2)
        : g \in StackAddrs }

\* the controller channels a log shows hci_open_dev to have opened
HciOpened(log) ==
  {log[i].fd : i \in {j \in DOMAIN log :
                        log[j].call = "hci_open_dev" /\ log[j].ok}}

\* the outcomes of bt_open_device(d, &dd, &name, &local_address) in a process
\* with open descriptors F and heap H; DD, NM, LA are the outputs' old values
bt_open_device(d, F, H, DD, NM, LA) ==
  IF d < 0
  THEN OpenNegative(d, F, H, DD, NM, LA)
  ELSE OpenSocketFails(d, F, H, DD, NM, LA)
       \cup OpenDevInfoFails(d, F, H, DD, NM, LA)
       \cup OpenNameOverrunTrapped(d, F, H, DD, NM, LA)
       \cup OpenDevFails(d, F, H, DD, NM, LA)
       \cup OpenSucceeds(d, F, H, DD, NM, LA)

(* ---------------- bt_close_device (bt.c:167-174) ------------------------ *)
\* hci_close_dev closes the descriptor; closing one that is not open fails
bt_close_device(d, F, H) ==
  IF d \in F
  THEN [err |-> "NULL", fds |-> F \ {d}, heap |-> H,
        log |-> <<Sys("close", d, <<>>, 0, TRUE)>>]
  ELSE [err |-> "CloseError", fds |-> F, heap |-> Alloc(H, "err"),
        log |-> <<Sys("close", d, <<>>, 0, FALSE)>>]

(* ---------------- the state before any call ---------------------------- *)
\* the controller before any command: not advertising
NoPrev == [fn |-> "none", dd |-> 0 - 1, err |-> "NULL"]
NoAdv == [enable |-> 0, params |-> <<>>, data |-> <<>>]
NoArg == [dd |-> 0 - 1, enable |-> 0, interval |-> 0, payload |-> <<>>,
          fds0 |-> {}, adv0 |-> NoAdv]
NoOut == [addr |-> <<>>, name |-> <<>>, rssi |-> <<>>, done |-> <<>>]

Init ==
  /\ pc = "idle"
  /\ fn = "none"
  /\ stack = <<>>
  /\ err = "NULL"
  /\ local_address = NullStr
  /\ channel = 0
  /\ in_local_address = NullStr
  /\ in_channel = 0
  /\ dev_id = 0
  /\ dd = -1
  /\ name = "NULL"
  /\ fds = {CallerSock}
  /\ bound = <<>>
  /\ heap = [name |-> 0, addr |-> 0, err |-> 0]
  /\ syscalls = <<>>
  /\ data = <<>>
  /\ char_signed = TRUE
  /\ ptr = 0
  /\ out = NoOut
  /\ err_arg = <<>>
  /\ copy = <<>>
  /\ iters = 0
  /\ adv = NoAdv
  /\ hcidev = {}
  /\ closed = {}
  /\ ncalls = 0
  /\ prev = NoPrev
  /\ arg = NoArg

Top == stack[Len(stack)]
Pop(st) == SubSeq(st, 1, Len(st) - 1)
At(line) == pc = "running" /\ stack # <<>> /\ Top = line
Goto(line) == stack' = Append(Pop(stack), line)
\* go to `line` in this frame and call bt_bind from there
CallFrom(line) == stack' = Pop(stack) \o <<line, "bt_bind:92">>

\* return e from the innermost frame; the call is over when it was the last
Return(e) ==
  /\ err' = e
  /\ stack' = Pop(stack)
  /\ pc' = IF Len(stack) = 1 THEN "returned" ELSE pc

(* ---------------- bt_bind (bt.c:87-133) --------------------------------- *)
AddrArgs == {NullStr} \cup {LiveStr(ba2str(DevAddr(d))) : d \in 0..MaxAddrArg}
ChannelArgs == 0..MaxChannelArg

\* the caller calls bt_bind(sock, &la, &ch)
CallBind(la, ch) ==
  /\ pc = "idle"
  /\ pc' = "running"
  /\ fn' = "bt_bind"
  /\ stack' = <<"bt_bind:92">>
  /\ local_address' = la
  /\ in_local_address' = la
  /\ channel' = ch
  /\ in_channel' = ch
  /\ UNCHANGED <<err, dev_id, dd, name, fds, bound, heap, syscalls>>
  /\ UNCHANGED parseVars
  /\ UNCHANGED devVars

\* bt.c:92-95: *local_address == NULL, start the device loop
BindEnterDevLoop ==
  /\ At("bt_bind:92")
  /\ local_address.state = "null"
  /\ dev_id' = 0
  /\ name' = "NULL"
  /\ Goto("bt_bind:95")
  /\ UNCHANGED <<pc, fn, err, dd, fds, heap, syscalls>>
  /\ UNCHANGED bindVars
  /\ UNCHANGED parseVars
  /\ UNCHANGED devVars

\* the first value of *channel in the channel loop (bt.c:113)
FirstChannel == 1
\* a channel loop that steps over every other channel
NextChannel_skip(c) == c + 2
\* the loop's step (bt.c:113)
NextChannel(c) == c + 1
\* the loop's test (bt.c:113)
ChannelInRange(c) == c < kMaxChannel
\* the device loop's test (bt.c:95)
DeviceInRange(d) == d < kMaxDevices

\* bt.c:96-102: open device dev_id; on failure go on to the next one, on
\* success close the descriptor and call bt_bind with the device's address
\* (the controller channel is closed at once: hcidev is as before)
DevLoopOpen ==
  /\ At("bt_bind:95")
  /\ DeviceInRange(dev_id)
  /\ \E o \in bt_open_device(dev_id, fds, heap, dd, name, local_address) :
       /\ dd' = o.dd
       /\ name' = o.name
       /\ local_address' = o.local_address
       /\ IF o.crash
          THEN /\ pc' = "crashed"
               /\ fds' = o.fds
               /\ heap' = o.heap
               /\ syscalls' = syscalls \o o.log
               /\ UNCHANGED <<stack, dev_id, err>>
          ELSE IF o.err # "NULL"
          THEN /\ fds' = o.fds
               /\ heap' = Free(o.heap, "err")
               /\ syscalls' = syscalls \o o.log
               /\ dev_id' = dev_id + 1
               /\ err' = o.err
               /\ UNCHANGED <<pc, stack>>
          ELSE LET c == bt_close_device(o.dd, o.fds, o.heap)
               IN  /\ fds' = c.fds
                   /\ heap' = c.heap
                   /\ syscalls' = syscalls \o o.log \o c.log
                   /\ err' = o.err
                   /\ CallFrom("bt_bind:102")
                   /\ UNCHANGED <<pc, dev_id>>
  /\ UNCHANGED <<fn, channel, in_local_address, in_channel, bound>>
  /\ UNCHANGED parseVars
  /\ UNCHANGED devVars

\* bt.c:102-107: the bind on the device's address returned
DevLoopAfterBind ==
  /\ At("bt_bind:102")
  /\ IF err # "NULL"
     THEN /\ heap' = Free(Free(heap, "err"), "addr")
          /\ local_address' = FreedStr(local_address)
          /\ dev_id' = dev_id + 1
          /\ Goto("bt_bind:95")
          /\ UNCHANGED <<pc, err>>
     ELSE /\ Return("NULL")
          /\ UNCHANGED <<heap, local_address, dev_id>>
  /\ UNCHANGED <<fn, channel, in_local_address, in_channel, bound, dd, name,
                 fds, syscalls>>
  /\ UNCHANGED parseVars
  /\ UNCHANGED devVars

\* bt.c:95, 109-110: no device is left
DevLoopExhausted ==
  /\ At("bt_bind:95")
  /\ ~DeviceInRange(dev_id)
  /\ Return("NoDeviceAvailable")
  /\ heap' = Alloc(heap, "err")
  /\ UNCHANGED <<fn, dev_id, dd, name, fds, syscalls>>
  /\ UNCHANGED bindVars
  /\ UNCHANGED parseVars
  /\ UNCHANGED devVars

\* bt.c:111-113: an address and *channel == 0, start the channel loop
BindEnterChanLoop ==
  /\ At("bt_bind:92")
  /\ local_address.state # "null"
  /\ channel = 0
  /\ channel' = FirstChannel
  /\ Goto("bt_bind:113")
  /\ UNCHANGED <<pc, fn, err, dev_id, dd, name, fds, heap, syscalls,
                 local_address, in_local_address, in_channel, bound>>
  /\ UNCHANGED parseVars
  /\ UNCHANGED devVars

\* bt.c:113-114: try the bind on *channel
ChanLoopTry ==
  /\ At("bt_bind:113")
  /\ ChannelInRange(channel)
  /\ CallFrom("bt_bind:114")
  /\ UNCHANGED <<pc, fn, err, dev_id, dd, name, fds, heap, syscalls>>
  /\ UNCHANGED bindVars
  /\ UNCHANGED parseVars
  /\ UNCHANGED devVars

\* bt.c:114-118: the bind on *channel returned
ChanLoopAfterBind ==
  /\ At("bt_bind:114")
  /\ IF err # "NULL"
     THEN /\ heap' = Free(heap, "err")
          /\ channel' = NextChannel(channel)
          /\ Goto("bt_bind:113")
          /\ UNCHANGED <<pc, err>>
     ELSE /\ Return("NULL")
          /\ UNCHANGED <<heap, channel>>
  /\ UNCHANGED <<fn, local_address, in_local_address, in_channel, bound,
                 dev_id, dd, name, fds, syscalls>>
  /\ UNCHANGED parseVars
  /\ UNCHANGED devVars

\* a channel loop that hands on the last bind's error when it runs out
ChanLoopExhausted_lastError ==
  /\ At("bt_bind:113")
  /\ channel >= kMaxChannel
  /\ Return("BindError")
  /\ heap' = Alloc(heap, "err")
  /\ UNCHANGED <<fn, dev_id, dd, name, fds, syscalls>>
  /\ UNCHANGED bindVars
  /\ UNCHANGED parseVars
  /\ UNCHANGED devVars

\* bt.c:113, 120-121: no channel is left
ChanLoopExhausted ==
  /\ At("bt_bind:113")
  /\ ~ChannelInRange(channel)
  /\ Return("NoChannelAvailable")
  /\ heap' = Alloc(heap, "err")
  /\ UNCHANGED <<fn, dev_id, dd, name, fds, syscalls>>
  /\ UNCHANGED bindVars
  /\ UNCHANGED parseVars
  /\ UNCHANGED devVars

\* a bind that takes the octets of the address in the order of the text
SockAddr_textOrder(la, ch) ==
  <<[j \in 1..6 |-> 16 * la.str[2 * j - 1] + la.str[2 * j]], ch % 256>>
\* a bind that counts channels from zero
SockAddr_zeroBased(la, ch) == <<str2ba(la.str), (ch - 1) % 256>>
\* the sockaddr_rc handed to the kernel (bt.c:123-125); rc_channel is a uint8_t
SockAddr(la, ch) == <<str2ba(la.str), ch % 256>>

\* bt.c:122-132: an address and a channel: one bind(2) on the socket.  The
\* kernel accepts or rejects; a socket that is bound already is rejected.
BindKernel ==
  /\ At("bt_bind:92")
  /\ local_address.state # "null"
  /\ channel # 0
  /\ \E ok \in IF bound = <<>> THEN BOOLEAN ELSE {FALSE} :
       LET a == SockAddr(local_address, channel)
       IN  /\ syscalls' = Append(syscalls, Sys("bind", CallerSock, a[1], a[2], ok))
           /\ bound' = IF ok THEN a ELSE bound
           /\ heap' = IF ok THEN heap ELSE Alloc(heap, "err")
           /\ Return(IF ok THEN "NULL" ELSE "BindError")
  /\ UNCHANGED <<fn, local_address, channel, in_local_address, in_channel,
                 dev_id, dd, name, fds>>
  /\ UNCHANGED parseVars
  /\ UNCHANGED devVars

(* ---------------- bt_open_device, called by the caller ------------------ *)
DevIdArgs == (0 - MaxNegDevId)..MaxDevIdArg

CallOpenDevice(d) ==
  /\ pc = "idle"
  /\ pc' = "running"
  /\ fn' = "bt_open_device"
  /\ stack' = <<"bt_open_device:45">>
  /\ dev_id' = d
  /\ ncalls' = ncalls + 1
  /\ UNCHANGED <<err, dd, name, fds, heap, syscalls>>
  /\ UNCHANGED <<adv, hcidev, closed, arg, prev>>
  /\ UNCHANGED bindVars
  /\ UNCHANGED parseVars

\* bt.c:38-85 with the caller's dd, name and local_address as outputs
OpenDevice ==
  /\ At("bt_open_device:45")
  /\ \E o \in bt_open_device(dev_id, fds, heap, dd, name, local_address) :
       /\ dd' = o.dd
       /\ name' = o.name
       /\ local_address' = o.local_address
       /\ fds' = o.fds
       /\ heap' = o.heap
       /\ syscalls' = syscalls \o o.log
       /\ hcidev' = (hcidev \cap o.fds) \cup (HciOpened(o.log) \cap o.fds)
       /\ closed' = closed \ o.fds
       /\ IF o.crash
          THEN pc' = "crashed" /\ UNCHANGED <<stack, err>>
          ELSE Return(o.err)
  /\ UNCHANGED <<fn, dev_id, channel, in_local_address, in_channel, bound>>
  /\ UNCHANGED <<adv, ncalls, arg, prev>>
  /\ UNCHANGED parseVars

(* ---------------- host-controller requests (bt.c:176-278) ---------------- *)
\* opcodes of the LE controller commands (bt.c:187, 218, 261)
OCF_LE_SET_ADVERTISING_PARAMETERS == 6
OCF_LE_SET_ADVERTISING_DATA == 8
OCF_LE_SET_ADVERTISE_ENABLE == 10
\* sizeof adv_data_cp.data (bt.c:239, 248)
AdvDataSize == 31

\* hci_send_req(d, &req, kTimeoutMs): on a descriptor that is not an open
\* controller channel the request fails and is not sent; on one that is, it
\* is transported and carried out, or it fails (write error, timeout), the
\* controller having carried it out or not.  The status byte is not looked at.
hci_send_req_anyDescriptor(d) ==
  {[ok |-> TRUE, applied |-> TRUE], [ok |-> FALSE, applied |-> FALSE],
   [ok |-> FALSE, applied |-> TRUE]}
hci_send_req(d) ==
  IF d \in hcidev
  THEN {[ok |-> TRUE, applied |-> TRUE], [ok |-> FALSE, applied |-> FALSE],
        [ok |-> FALSE, applied |-> TRUE]}
  ELSE {[ok |-> FALSE, applied |-> FALSE]}

\* the controller carries out a request
Apply(a, ocf, cparam) ==
  IF ocf = OCF_LE_SET_ADVERTISING_PARAMETERS THEN [a EXCEPT !.params = cparam]
  ELSE IF ocf = OCF_LE_SET_ADVERTISING_DATA THEN [a EXCEPT !.data = cparam]
  ELSE [a EXCEPT !.enable = cparam[1]]

\* one request: logged, carried out or not, and its result
Request(ocf, cparam, r) ==
  /\ syscalls' = Append(syscalls, Sys("hci_send_req", arg.dd, cparam, ocf, r.ok))
  /\ adv' = IF r.applied THEN Apply(adv, ocf, cparam) ELSE adv

DdArgs == CallerSock..(CallerSock + MaxDdArg)
IntervalArgs == {100 * k : k \in 1..MaxIntervalArg}
\* a payload is a C string: its bytes, none of them zero, and the terminator
CStr(p) == p \o <<0>>
strlen(s) == CHOOSE n \in 0..(Len(s) - 1) : s[n + 1] = 0 /\ \A i \in 1..n : s[i] # 0
Bytes(s) == SubSeq(s, 1, strlen(s))
Payload(base, n) == [i \in 1..n |-> base + i]
PayloadArgs == {CStr(Payload(b, n)) : b \in {64, 200}, n \in 0..MaxPayloadLen}
\* the payloads of a caller of SpecDev: one that fits and one that does not
ShortPayloadArgs ==
  {CStr(Payload(64, 1)), CStr(Payload(64, kMaxLEPayloadSize + 1))}

\* the caller calls one of bt_close_device and the advertising commands
CallDev(f, line, a) ==
  /\ pc = "idle"
  /\ pc' = "running"
  /\ fn' = f
  /\ stack' = <<line>>
  /\ arg' = [a EXCEPT !.fds0 = fds, !.adv0 = adv]
  /\ ncalls' = ncalls + 1
  /\ UNCHANGED <<err, dev_id, dd, name, fds, heap, syscalls, adv, hcidev, closed,
                 prev>>
  /\ UNCHANGED bindVars
  /\ UNCHANGED parseVars

CallStart(d, ms) ==
  CallDev("bt_start_le_advertising", "start:224",
          [NoArg EXCEPT !.dd = d, !.interval = ms])
CallStop_enable(d) ==
  CallDev("bt_stop_le_advertising", "enable:193",
          [NoArg EXCEPT !.dd = d, !.enable = 1])
CallStop(d) ==
  CallDev("bt_stop_le_advertising", "enable:193",
          [NoArg EXCEPT !.dd = d, !.enable = 0])
CallSetPayload(d, p) ==
  CallDev("bt_set_le_advertising_payload", "payload:242",
          [NoArg EXCEPT !.dd = d, !.payload = p])
CallClose(d) ==
  CallDev("bt_close_device", "close:169", [NoArg EXCEPT !.dd = d])

\* le_set_advertising_parameters_cp (bt.c:210-214): min_interval, max_interval
\* (uint16_t each), advtype, own_bdaddr_type, direct_bdaddr_type,
\* direct_bdaddr, chan_map, filter
AdvParamsCp_minOnly(ms) ==
  <<ms % 65536, 0, 0, 0, 0>> \o <<0, 0, 0, 0, 0, 0>> \o <<7, 0>>
AdvParamsCp(ms) ==
  <<ms % 65536, ms % 65536, 0, 0, 0>> \o <<0, 0, 0, 0, 0, 0>> \o <<7, 0>>

\* bt.c:202-232: set the parameters, then enable advertising
StartSetParams ==
  /\ At("start:224")
  /\ \E r \in hci_send_req(arg.dd) :
       /\ Request(OCF_LE_SET_ADVERTISING_PARAMETERS, AdvParamsCp(arg.interval), r)
       /\ IF r.ok
          THEN /\ arg' = [arg EXCEPT !.enable = 1]
               /\ Goto("enable:193")
               /\ UNCHANGED <<pc, err, heap>>
          ELSE /\ Return("CommandFailed")
               /\ heap' = Alloc(heap, "err")
               /\ UNCHANGED arg
  /\ UNCHANGED <<fn, dev_id, dd, name, fds, hcidev, closed, ncalls, prev>>
  /\ UNCHANGED bindVars
  /\ UNCHANGED parseVars

\* bt.c:176-200: bt_enable_le_advertising(dd, enable)
EnableAdvertising ==
  /\ At("enable:193")
  /\ \E r \in hci_send_req(arg.dd) :
       /\ Request(OCF_LE_SET_ADVERTISE_ENABLE, <<arg.enable>>, r)
       /\ Return(IF r.ok THEN "NULL" ELSE "CommandFailed")
       /\ heap' = IF r.ok THEN heap ELSE Alloc(heap, "err")
  /\ UNCHANGED <<fn, dev_id, dd, name, fds, hcidev, closed, ncalls, arg,
                 prev>>
  /\ UNCHANGED bindVars
  /\ UNCHANGED parseVars

\* le_set_advertising_data_cp (bt.c:247-257): the length, then the 31 bytes
\* of data, zeroed and filled from the front
AdvDataCp_lengthWithoutType(s) ==
  LET body == <<2, EIR_FLAGS, 6, strlen(s) % 256, EIR_NAME_COMPLETE>> \o Bytes(s)
  IN  <<Len(body) % 256>>
        \o [i \in 1..AdvDataSize |-> IF i <= Len(body) THEN body[i] ELSE 0]
AdvDataCp(s) ==
  LET body == <<2, EIR_FLAGS, 6, (strlen(s) + 1) % 256, EIR_NAME_COMPLETE>>
                \o Bytes(s)
  IN  <<Len(body) % 256>>
        \o [i \in 1..AdvDataSize |-> IF i <= Len(body) THEN body[i] ELSE 0]

\* the size test of bt.c:242
PayloadTooBig_orFull(s) == strlen(s) >= kMaxLEPayloadSize
PayloadTooBig(s) == strlen(s) > kMaxLEPayloadSize

\* bt.c:235-274
SetPayload ==
  /\ At("payload:242")
  /\ IF PayloadTooBig(arg.payload)
     THEN /\ Return("PayloadTooLarge")
          /\ heap' = Alloc(heap, "err")
          /\ UNCHANGED <<syscalls, adv>>
     ELSE \E r \in hci_send_req(arg.dd) :
            /\ Request(OCF_LE_SET_ADVERTISING_DATA, AdvDataCp(arg.payload), r)
            /\ Return(IF r.ok THEN "NULL" ELSE "CommandFailed")
            /\ heap' = IF r.ok THEN heap ELSE Alloc(heap, "err")
  /\ UNCHANGED <<fn, dev_id, dd, name, fds, hcidev, closed, ncalls, arg,
                 prev>>
  /\ UNCHANGED bindVars
  /\ UNCHANGED parseVars

\* bt.c:167-174, called by the caller
CloseDevice ==
  /\ At("close:169")
  /\ LET c == bt_close_device(arg.dd, fds, heap)
     IN  /\ fds' = c.fds
         /\ heap' = c.heap
         /\ syscalls' = syscalls \o c.log
         /\ hcidev' = hcidev \cap c.fds
         /\ closed' = IF c.err = "NULL" THEN closed \cup {arg.dd} ELSE closed
         /\ Return(c.err)
  /\ UNCHANGED <<fn, dev_id, dd, name, adv, ncalls, arg, prev>>
  /\ UNCHANGED bindVars
  /\ UNCHANGED parseVars

\* the caller frees the error string it was given and goes on to its next
\* call; the log is that of one call
Again ==
  /\ pc = "returned"
  /\ ncalls < MaxCalls
  /\ pc' = "idle"
  /\ fn' = "none"
  /\ err' = "NULL"
  /\ heap' = IF err # "NULL" THEN Free(heap, "err") ELSE heap
  /\ syscalls' = <<>>
  /\ prev' = [fn |-> fn, dd |-> arg.dd, err |-> err]
  /\ arg' = NoArg
  /\ dev_id' = 0
  /\ UNCHANGED <<stack, dd, name, fds, adv, hcidev, closed, ncalls>>
  /\ UNCHANGED bindVars
  /\ UNCHANGED parseVars

(* ---------------- bt_parse_le_meta_event (bt.c:280-336) ------------------ *)
\* the bytes that EIR data is made of in the events the caller passes
EirBytes == {0, 1, 2, 3, 9, 65, 254, 255}
EirArgs == UNION {[1..n -> EirBytes] : n \in 0..MaxEirLen}

\* an HCI packet holding an LE meta event with one advertising report:
\* packet type, event header, subevent, num_reports, evt_type, bdaddr_type,
\* bdaddr, length, EIR data, RSSI
Packet(subevent, ba, eir, rssi) ==
  <<4, 62, 12 + Len(eir)>> \o <<subevent, 1, 0, 0>> \o ba \o <<Len(eir)>>
    \o eir \o <<rssi>>

\* the EIR data that bt_set_le_advertising_payload gives the controller to
\* advertise: the first length bytes of the data
EncodedEir(s) == SubSeq(AdvDataCp(s), 2, 1 + AdvDataCp(s)[1])
\* the payloads that bt_set_le_advertising_payload accepts
Advertised == {s \in PayloadArgs : ~PayloadTooBig(s)}
\* the report of a device that advertises the payload s
Report(s) == Packet(2, DevAddr(1), EncodedEir(s), 192)

\* EIR data made of records: the length (type and value), the type, the
\* value; the k-th record's value bytes are unlike every other record's
RecordTypes == {EIR_FLAGS, EIR_NAME_SHORT, EIR_NAME_COMPLETE}
RecordLens == {0, 1, 2, kMaxNameLength, kMaxNameLength + 1}
Record(t, n, k) == <<n + 1, t>> \o [i \in 1..n |-> 32 * k + i]
RECURSIVE RecordSeqs(_)
RecordSeqs(k) ==
  IF k = 0 THEN {<<>>}
  ELSE RecordSeqs(k - 1)
         \cup {rs \o Record(t, n, k + 1) :
                 rs \in RecordSeqs(k - 1), t \in RecordTypes, n \in RecordLens}
RecordArgs == RecordSeqs(MaxRecords)

ParseArgs ==
  {Packet(sub, DevAddr(0), <<>>, 0) : sub \in 0..255}
  \cup {Packet(2, DevAddr(1), eir, 192) : eir \in EirArgs}
  \cup {Report(s) : s \in Advertised}
  \cup {Packet(2, DevAddr(1), eir, 192) : eir \in RecordArgs}

\* the value of a byte read through an int8_t* / a plain char*
Int8(b) == IF b >= 128 THEN b - 256 ELSE b
Char(b, sgn) == IF sgn THEN Int8(b) ELSE b

\* a byte whose value is indeterminate (read outside the buffer)
Indeterminate == 0 - 1
\* what one byte of the memory outside the buffer may read as
OutsideBytes == {0, 9, 65}
InBuffer(k) == 0 <= k /\ k < Len(data)
\* offset k of the buffer
Mem(k) == IF InBuffer(k) THEN data[k + 1] ELSE Indeterminate
\* the values a read of offset k may yield
Read(k) == IF InBuffer(k) THEN {data[k + 1]} ELSE OutsideBytes

\* offsets of the event's fields (bt.c:287, 297): the subevent follows the
\* packet type and the event header, adv_info is at meta_event->data + 1
\* a parser that forgets the packet-type byte in front of the event header
SubeventOff_noPacketType == HCI_EVENT_HDR_SIZE + 0
SubeventOff == 1 + HCI_EVENT_HDR_SIZE
AdvInfoOff == SubeventOff + 1 + 1
BdaddrOff == AdvInfoOff + 2
LengthOff == BdaddrOff + 6
EirOff == LengthOff + 1
\* end = adv_info->data + adv_info->length (bt.c:310)
End == EirOff + Mem(LengthOff)

CallParse(ev, sgn) ==
  /\ pc = "idle"
  /\ pc' = "running"
  /\ fn' = "bt_parse_le_meta_event"
  /\ stack' = <<"parse:286">>
  /\ data' = ev
  /\ char_signed' = sgn
  /\ UNCHANGED <<err, dev_id, dd, name, fds, heap, syscalls, ptr, out, err_arg,
                 copy, iters>>
  /\ UNCHANGED bindVars
  /\ UNCHANGED devVars

\* bt.c:286-310: the dispatch on the subevent, and the outputs' set-up
ParseDispatch ==
  /\ At("parse:286")
  /\ LET subevent == Mem(SubeventOff)
     IN  IF subevent = 1
         THEN /\ out' = [out EXCEPT !.done = <<1>>]
              /\ Return("NULL")
              /\ UNCHANGED <<heap, ptr, err_arg>>
         ELSE IF subevent # 2
         THEN /\ out' = [out EXCEPT !.done = <<0>>]
              /\ err_arg' = <<subevent>>
              /\ heap' = Alloc(heap, "err")
              /\ Return("WrongEventType")
              /\ UNCHANGED ptr
         ELSE /\ out' = [addr |-> ba2str(SubSeq(data, BdaddrOff + 1, BdaddrOff + 6)),
                         rssi |-> <<Int8(Mem(End))>>,
                         name |-> [i \in 1..kMaxNameLength |-> 0],
                         done |-> <<0>>]
              /\ heap' = Alloc(Alloc(heap, "addr"), "name")
              /\ ptr' = EirOff
              /\ Goto("parse:313")
              /\ UNCHANGED <<pc, err, err_arg>>
  /\ UNCHANGED <<fn, dev_id, dd, name, fds, syscalls, data, char_signed, copy,
                 iters>>
  /\ UNCHANGED bindVars
  /\ UNCHANGED devVars

\* memcpy(*remote_name, p, n) (bt.c:330)
CopyName_fromType(nm, p, n) ==
  [i \in 1..kMaxNameLength |-> IF i <= n THEN Mem(p + i - 2) ELSE nm[i]]
CopyName(nm, p, n) ==
  [i \in 1..kMaxNameLength |-> IF i <= n THEN Mem(p + i - 1) ELSE nm[i]]

\* bt.c:313-334: one iteration of the walk over the EIR records
ParseEirStep ==
  /\ At("parse:313")
  /\ ptr < End
  /\ iters' = IF iters < MaxIters THEN iters + 1 ELSE iters
  /\ \E lb \in Read(ptr), tb \in Read(ptr + 1) :
       LET adv_data_length == Char(lb, char_signed)
           adv_data_type == Char(tb, char_signed)
           isName == adv_data_type \in {EIR_NAME_SHORT, EIR_NAME_COMPLETE}
           n == adv_data_length - 1
       IN  IF adv_data_length = 0 \/ ptr + 1 + adv_data_length > End
           THEN /\ Return("NULL")
                /\ UNCHANGED <<ptr, out, copy>>
           ELSE IF isName /\ n <= kMaxNameLength /\ n < 0
           THEN \* memcpy with a negative length, converted to size_t
                /\ pc' = "crashed"
                /\ copy' = <<[src |-> ptr + 2, n |-> n, type |-> adv_data_type]>>
                /\ UNCHANGED <<stack, err, ptr, out>>
           ELSE /\ out' = IF isName /\ n <= kMaxNameLength
                          THEN [out EXCEPT !.name = CopyName(@, ptr + 2, n)]
                          ELSE out
                /\ copy' = IF isName /\ n <= kMaxNameLength
                           THEN <<[src |-> ptr + 2, n |-> n, type |-> adv_data_type]>>
                           ELSE copy
                /\ ptr' = ptr + 2 + n
                /\ UNCHANGED <<pc, stack, err>>
  /\ UNCHANGED <<fn, dev_id, dd, name, fds, heap, syscalls, data, char_signed,
                 err_arg>>
  /\ UNCHANGED bindVars
  /\ UNCHANGED devVars

\* bt.c:313, 335: the walk reached the end of the EIR data
ParseEnd ==
  /\ At("parse:313")
  /\ ~(ptr < End)
  /\ Return("NULL")
  /\ UNCHANGED <<fn, dev_id, dd, name, fds, heap, syscalls>>
  /\ UNCHANGED parseVars
  /\ UNCHANGED bindVars
  /\ UNCHANGED devVars

Next ==
  \/ pc = "idle" /\ \E la \in AddrArgs, ch \in ChannelArgs : CallBind(la, ch)
  \/ BindEnterDevLoop
  \/ DevLoopOpen
  \/ DevLoopAfterBind
  \/ DevLoopExhausted
  \/ BindEnterChanLoop
  \/ ChanLoopTry
  \/ ChanLoopAfterBind
  \/ ChanLoopExhausted
  \/ BindKernel
  \/ pc = "idle" /\ \E d \in DevIdArgs : CallOpenDevice(d)
  \/ OpenDevice
  \/ pc = "idle" /\ \E ev \in ParseArgs, sgn \in BOOLEAN : CallParse(ev, sgn)
  \/ ParseDispatch
  \/ ParseEirStep
  \/ ParseEnd

Spec == Init /\ [][Next]_vars

\* one advertising command on the controller channel that a successful
\* bt_open_device(0, ...) left with the caller
InitAdv ==
  /\ pc = "idle"
  /\ fn = "none"
  /\ stack = <<>>
  /\ err = "NULL"
  /\ local_address = LiveStr(ba2str(DevAddr(0)))
  /\ channel = 0
  /\ in_local_address = NullStr
  /\ in_channel = 0
  /\ dev_id = 0
  /\ dd = CallerSock + 2
  /\ name = "set"
  /\ fds = {CallerSock, CallerSock + 1, CallerSock + 2}
  /\ bound = <<>>
  /\ heap = [name |-> 1, addr |-> 1, err |-> 0]
  /\ syscalls = <<>>
  /\ data = <<>>
  /\ char_signed = TRUE
  /\ ptr = 0
  /\ out = NoOut
  /\ err_arg = <<>>
  /\ copy = <<>>
  /\ iters = 0
  /\ adv = NoAdv
  /\ hcidev = {CallerSock + 2}
  /\ closed = {}
  /\ ncalls = 1
  /\ arg = NoArg
  /\ prev = [fn |-> "bt_open_device", dd |-> NoArg.dd, err |-> "NULL"]

NextAdv ==
  \/ pc = "idle" /\ \E d \in DdArgs, ms \in IntervalArgs : CallStart(d, ms)
  \/ StartSetParams
  \/ pc = "idle" /\ \E d \in DdArgs : CallStop(d)
  \/ EnableAdvertising
  \/ pc = "idle" /\ \E d \in DdArgs, p \in PayloadArgs : CallSetPayload(d, p)
  \/ SetPayload

SpecAdv == InitAdv /\ [][NextAdv]_vars

NextDev ==
  \/ pc = "idle" /\ \E d \in DevIdArgs : CallOpenDevice(d)
  \/ OpenDevice
  \/ pc = "idle" /\ \E d \in DdArgs : CallClose(d)
  \/ CloseDevice
  \/ pc = "idle" /\ \E d \in DdArgs, ms \in IntervalArgs : CallStart(d, ms)
  \/ StartSetParams
  \/ pc = "idle" /\ \E d \in DdArgs : CallStop(d)
  \/ EnableAdvertising
  \/ pc = "idle" /\ \E d \in DdArgs, p \in ShortPayloadArgs : CallSetPayload(d, p)
  \/ SetPayload
  \/ Again

SpecDev == Init /\ [][NextDev]_vars

(* ======================= properties ===================================== *)
\* the kernel binds attempted so far, in order
Binds == SelectSeq(syscalls, LAMBDA e : e.call = "bind")
\* the last channel the channel loop tries
LastChannel == kMaxChannel - 1
BindReturned == fn = "bt_bind" /\ pc = "returned"
BindSucceeded == BindReturned /\ err = "NULL"
AddrSupplied == in_local_address.state # "null"
\* the devices bt_bind opened so far, and the address each reported
OpenedDevs ==
  {syscalls[i].n : i \in {j \in DOMAIN syscalls :
                            syscalls[j].call = "hci_open_dev" /\ syscalls[j].ok}}
AddrOf(d) ==
  LET i == CHOOSE j \in DOMAIN syscalls :
             syscalls[j].call = "hci_devba" /\ syscalls[j].n = d
  IN  syscalls[i].addr
Tried(a, c) == \E i \in DOMAIN Binds : Binds[i].addr = a /\ Binds[i].n = c
Rejected(a, c) ==
  \E i \in DOMAIN Binds : Binds[i].addr = a /\ Binds[i].n = c /\ ~Binds[i].ok

\* C1: called with *local_address == NULL and *channel == 0, bt_bind tries
\* channels 1..29 on the address of every device that opens, in (device,
\* channel) order, until a bind is accepted: when it returns, every such
\* pair was tried unless an earlier pair was accepted, and on success the
\* pair bound is one of these pairs and is what the outputs hold.
C1_FirstWorkingPair ==
  (BindReturned /\ ~AddrSupplied /\ in_channel = 0) =>
    /\ \A d \in OpenedDevs, c \in 1..LastChannel :
         \/ Tried(AddrOf(d), c)
         \/ /\ err = "NULL"
            /\ bound[2] \in 1..LastChannel
            /\ \E e \in OpenedDevs :
                 /\ bound[1] = AddrOf(e)
                 /\ e < d \/ (e = d /\ bound[2] < c)
    /\ err = "NULL" =>
         /\ bound[2] \in 1..LastChannel
         /\ local_address.str = ba2str(bound[1])
         /\ channel = bound[2]

\* C2: called with an address and *channel == 0, bt_bind tries the channels
\* 1, 2, ... in ascending order on that address, at most 29 of them, and
\* none after an accepted one; on success *channel is the accepted channel,
\* every lower channel was rejected, and *local_address is as passed.
C2_ChannelSearch ==
  (fn = "bt_bind" /\ AddrSupplied /\ in_channel = 0) =>
    /\ Len(Binds) <= LastChannel
    /\ \A i \in DOMAIN Binds :
         /\ Binds[i].n = i
         /\ ba2str(Binds[i].addr) = in_local_address.str
         /\ Binds[i].ok => i = Len(Binds)
    /\ local_address = in_local_address
    /\ BindSucceeded =>
         /\ channel \in 1..LastChannel
         /\ Len(Binds) = channel
         /\ Binds[channel].ok
         /\ bound = <<Binds[channel].addr, channel>>

\* the fourth channel is the first one accepted (scenario S5)
C2_Witness ==
  /\ BindSucceeded /\ AddrSupplied /\ in_channel = 0
  /\ channel = 4
  /\ Len(Binds) = 4
  /\ ~Binds[3].ok

\* C3: whenever bt_bind returns success, exactly one kernel bind succeeded,
\* the last one made; its address and channel are what *local_address and
\* *channel hold, and *local_address is a live string.
C3_OutputsAreBoundPair ==
  BindSucceeded =>
    /\ local_address.state = "live"
    /\ Binds # <<>>
    /\ \A i \in DOMAIN Binds : Binds[i].ok <=> i = Len(Binds)
    /\ ba2str(Binds[Len(Binds)].addr) = local_address.str
    /\ Binds[Len(Binds)].n = channel
    /\ bound = <<Binds[Len(Binds)].addr, Binds[Len(Binds)].n>>

\* success on the second device opened, after the first one's address was
\* freed, with both values unspecified
C3_Witness ==
  /\ BindSucceeded /\ ~AddrSupplied /\ in_channel = 0
  /\ Cardinality(OpenedDevs) = 2
  /\ \E i \in DOMAIN Binds : ~Binds[i].ok

\* C4: whenever bt_bind is called with *channel == 0 and returns success,
\* *channel lies in 1..29.
C4_ChannelInRange ==
  (BindSucceeded /\ in_channel = 0) => channel \in 1..LastChannel

\* C5: when bt_bind returns an error it is NoChannelAvailable if an address
\* was supplied and *channel was 0 (and then all of 1..29 were rejected),
\* NoDeviceAvailable if *local_address was NULL, and the kernel's BindError
\* if both values were supplied; it returns an error whenever no bind was
\* accepted.
C5_ExhaustionErrors ==
  BindReturned =>
    /\ (\A i \in DOMAIN Binds : ~Binds[i].ok) => err # "NULL"
    /\ (err # "NULL" /\ AddrSupplied /\ in_channel = 0) =>
         /\ err = "NoChannelAvailable"
         /\ \A c \in 1..LastChannel : Rejected(str2ba(in_local_address.str), c)
    /\ (err # "NULL" /\ ~AddrSupplied) => err = "NoDeviceAvailable"
    /\ (err # "NULL" /\ AddrSupplied /\ in_channel # 0) =>
         /\ err = "BindError"
         /\ Len(Binds) = 1

\* every channel was rejected on the supplied address (scenario S6)
C5_Witness ==
  /\ BindReturned /\ AddrSupplied /\ in_channel = 0
  /\ err = "NoChannelAvailable"
  /\ Len(Binds) = LastChannel

\* the pairs the call can reach: the supplied address or the address of a
\* device it opened, with the supplied channel or a channel in 1..29
Reachable ==
  {<<d, a, c>> \in (0..(kMaxDevices - 1)) \X {Binds[i].addr : i \in DOMAIN Binds}
                     \X (1..LastChannel) :
     /\ IF AddrSupplied THEN a = str2ba(in_local_address.str) /\ d = 0
                        ELSE d \in OpenedDevs /\ a = AddrOf(d)
     /\ in_channel # 0 => c = in_channel}

\* C6: when bt_bind, called with a sentinel, returns, then for every pair
\* (addr, ch) it can reach whose bind the kernel did not reject, it returned
\* success with a channel <= ch on a device whose id is <= that of addr.
C6_Monotonic ==
  (BindReturned /\ (~AddrSupplied \/ in_channel = 0)) =>
    \A r \in Reachable :
      ~Rejected(r[2], r[3]) =>
        /\ err = "NULL"
        /\ channel <= r[3]
        /\ IF AddrSupplied THEN local_address = in_local_address
                           ELSE dev_id <= r[1]

\* C7: when bt_bind called with *local_address == NULL returns, the open
\* descriptors are those that were open before the call.
C7_NoDescriptorLeft ==
  (BindReturned /\ ~AddrSupplied) => fds = {CallerSock}

\* C8: called with an address and a non-zero channel, bt_bind makes one
\* kernel bind with that address and channel and nothing else, leaves
\* *local_address and *channel as passed, and returns success iff the
\* kernel accepted the bind.
C8_SingleBind ==
  (fn = "bt_bind" /\ AddrSupplied /\ in_channel # 0) =>
    /\ local_address = in_local_address
    /\ channel = in_channel
    /\ fds = {CallerSock}
    /\ Len(syscalls) <= 1
    /\ pc = "returned" <=> Len(syscalls) = 1
    /\ pc = "returned" =>
         /\ syscalls[1].call = "bind"
         /\ ba2str(syscalls[1].addr) = in_local_address.str
         /\ syscalls[1].n = in_channel
         /\ syscalls[1].ok <=> err = "NULL"

\* the single bind was rejected
C8_Witness ==
  /\ BindReturned /\ AddrSupplied /\ in_channel # 0
  /\ err = "BindError"

\* C9: bt_open_device called with dev_id < 0 returns an error, having made
\* no system call and written none of its outputs.
C9_NegativeIdFails ==
  (fn = "bt_open_device" /\ dev_id < 0 /\ pc \in {"returned", "crashed"}) =>
    /\ pc = "returned"
    /\ err # "NULL"
    /\ syscalls = <<>>
    /\ dd = 0 - 1 /\ name = "NULL" /\ local_address = NullStr

\* C10: bt_parse_le_meta_event dispatches on the byte at offset 3: with 0x01
\* it returns success with *done = 1 and no other output; with 0x02, when it
\* returns, it returns success with *done = 0 and the address, the name and
\* the RSSI written; with any other value it returns the WrongEventType
\* error carrying that value, with *done = 0 and no other output.
C10_SubeventDispatch ==
  (fn = "bt_parse_le_meta_event" /\ pc \in {"returned", "crashed"}) =>
    LET sub == data[4]
    IN  /\ sub = 1 =>
             /\ pc = "returned" /\ err = "NULL"
             /\ out = [NoOut EXCEPT !.done = <<1>>]
        /\ (sub = 2 /\ pc = "returned") =>
             /\ err = "NULL"
             /\ out.done = <<0>>
             /\ out.addr = ba2str(SubSeq(data, 8, 13))
             /\ Len(out.name) = kMaxNameLength
             /\ out.rssi = <<Int8(data[Len(data)])>>
        /\ sub \notin {1, 2} =>
             /\ pc = "returned" /\ err = "WrongEventType"
             /\ err_arg = <<sub>>
             /\ out = [NoOut EXCEPT !.done = <<0>>]

\* all three branches are taken: the witness is the error branch, reached
\* with the highest subevent value
C10_Witness ==
  /\ fn = "bt_parse_le_meta_event" /\ pc = "returned"
  /\ data[4] = 255
  /\ err = "WrongEventType"

(* ---------------- the advertising payload ---------------- *)
\* the requests of the call, by opcode
Requests(ocf) ==
  {i \in 1..Len(syscalls) :
     syscalls[i].call = "hci_send_req" /\ syscalls[i].n = ocf}
SetPayloadReturned ==
  fn = "bt_set_le_advertising_payload" /\ pc = "returned"

\* C11: for every payload p of at most 26 bytes, the advertising data that
\* bt_set_le_advertising_payload sends is the bytes 02 01 06, then |p| + 1,
\* then 09, then the bytes of p; its length field is 5 + |p|, which is at
\* most 31.
C11_AdvertisingData ==
  (fn = "bt_set_le_advertising_payload"
     /\ strlen(arg.payload) <= kMaxLEPayloadSize)
    => \A i \in Requests(OCF_LE_SET_ADVERTISING_DATA) :
         LET cp == syscalls[i].addr
             p == Bytes(arg.payload)
         IN  /\ cp[1] = 5 + Len(p)
             /\ cp[1] <= AdvDataSize
             /\ SubSeq(cp, 2, 1 + cp[1]) = <<2, 1, 6, Len(p) + 1, 9>> \o p
C11_Witness ==
  /\ SetPayloadReturned
  /\ strlen(arg.payload) = kMaxLEPayloadSize
  /\ Requests(OCF_LE_SET_ADVERTISING_DATA) # {}

\* C12: bt_set_le_advertising_payload rejects a payload exactly when it has
\* more than 26 bytes: then it returns PayloadTooLarge and has sent no request
\* to the controller; a payload of at most 26 bytes is not rejected for its
\* size and exactly one set-advertising-data request is made for it.
C12_RejectsOnlyOversized ==
  /\ fn = "bt_set_le_advertising_payload" => pc # "crashed"
  /\ SetPayloadReturned =>
       IF strlen(arg.payload) > 26
       THEN err = "PayloadTooLarge" /\ syscalls = <<>> /\ adv = arg.adv0
       ELSE /\ err # "PayloadTooLarge"
            /\ Len(syscalls) = 1
            /\ Requests(OCF_LE_SET_ADVERTISING_DATA) = {1}
C12_Witness ==
  /\ SetPayloadReturned
  /\ strlen(arg.payload) = 27
  /\ err = "PayloadTooLarge"

(* ---------------- encoding and parsing ---------------- *)
\* C13: for every payload p of at most 26 bytes, the report that wraps the
\* EIR bytes built by bt_set_le_advertising_payload (subevent 2, one report,
\* length 5 + |p|) is parsed by bt_parse_le_meta_event without an error and
\* with a remote name equal to p.
C13_RoundTrip ==
  \A s \in IF fn = "bt_parse_le_meta_event"
           THEN {a \in Advertised : Len(a) + 19 = Len(data)} ELSE {} :
    data = Report(s)
      => /\ pc # "crashed"
         /\ pc = "returned" =>
              /\ err = "NULL"
              /\ SubSeq(out.name, 1, strlen(s)) = Bytes(s)
              /\ \A i \in (strlen(s) + 1)..kMaxNameLength : out.name[i] = 0
C13_Witness ==
  /\ fn = "bt_parse_le_meta_event"
  /\ pc = "returned"
  /\ \E s \in Advertised : strlen(s) = kMaxLEPayloadSize /\ data = Report(s)
  /\ out.name[kMaxLEPayloadSize] # 0

(* ---------------- closed descriptors, repeated commands ---------------- *)
DevCalls ==
  {"bt_close_device", "bt_start_le_advertising", "bt_stop_le_advertising",
   "bt_set_le_advertising_payload"}
\* the call under way is given a descriptor that a successful
\* bt_close_device closed and that was not handed out again since
OnClosed == fn \in DevCalls /\ arg.dd \in closed /\ arg.dd \notin arg.fds0

\* C14: after bt_close_device(dd) has succeeded, a second bt_close_device(dd)
\* and every advertising command on dd (start, stop, set payload) returns a
\* non-NULL error, does not abort, and leaves the set of open descriptors and
\* the controller's advertising state as they were.
C14_ClosedDescriptorFails ==
  OnClosed =>
    /\ pc # "crashed"
    /\ fds = arg.fds0
    /\ adv = arg.adv0
    /\ pc = "returned" => err # "NULL"
C14_Witness ==
  /\ OnClosed
  /\ fn = "bt_close_device"
  /\ pc = "returned"
  /\ err = "CloseError"
  /\ prev = [fn |-> "bt_close_device", dd |-> arg.dd, err |-> "NULL"]

\* the call that returned is a bt_stop_le_advertising on an open controller
\* descriptor, and the call before it was one too, and succeeded
StopAfterStop ==
  /\ fn = "bt_stop_le_advertising"
  /\ pc = "returned"
  /\ arg.dd \in hcidev
  /\ prev = [fn |-> "bt_stop_le_advertising", dd |-> arg.dd, err |-> "NULL"]

ParsesReport ==
  fn = "bt_parse_le_meta_event" /\ pc # "idle" /\ Mem(SubeventOff) = 2
\* the EIR data of the report and its length L
EirLength == Mem(LengthOff)
Eir == SubSeq(data, EirOff + 1, EirOff + EirLength)
\* the name buffer holding the value v and zeros after it
Padded(v) == [i \in 1..kMaxNameLength |-> IF i <= Len(v) THEN v[i] ELSE 0]
\* the walk as specified, over bytes 0..255: the value of the last name
\* record (type 0x08 or 0x09, at most 31 bytes) before the end of the data,
\* a zero length or a record that carries past the end; acc if there is none
RECURSIVE LastName(_, _, _)
LastName(eir, i, acc) ==
  IF i > Len(eir) \/ eir[i] = 0 \/ i + eir[i] > Len(eir) THEN acc
  ELSE LET n == eir[i] - 1
           isName == eir[i + 1] \in {EIR_NAME_SHORT, EIR_NAME_COMPLETE}
       IN  LastName(eir, i + 1 + eir[i],
                    IF isName /\ n <= kMaxNameLength
                    THEN Padded(SubSeq(eir, i + 2, i + eir[i])) ELSE acc)

\* C16: the walk over the EIR records terminates for every report, whatever
\* the L bytes of EIR data are (length bytes of 0x80 and more included): the
\* read position strictly increases on each iteration and the loop is left
\* after at most L iterations.
C16_WalkTerminates ==
  /\ [](ParsesReport => iters <= EirLength)
  /\ [][(At("parse:313") /\ pc' = "running") => ptr' > ptr]_vars

\* C17: every copy into the name buffer stays in bounds, whatever the EIR
\* bytes are: its length is between 0 and 31, it reads only bytes of the L
\* bytes of EIR data, and it is made only for a record of type 0x08 or 0x09.
C17_CopyInBounds ==
  \A i \in 1..Len(copy) :
     /\ copy[i].n \in 0..kMaxNameLength
     /\ copy[i].src >= EirOff
     /\ copy[i].src + copy[i].n <= EirOff + EirLength
     /\ copy[i].type \in {EIR_NAME_SHORT, EIR_NAME_COMPLETE}

\* C18: after a successful parse of an advertising report the 31-byte name
\* output is the value of the last accepted name record (type 0x08 or 0x09)
\* followed by zeros in every remaining position, also when there are several
\* name records of different lengths; with no name record every byte is zero.
C18_NameIsLastRecord ==
  (ParsesReport /\ pc = "returned" /\ err = "NULL")
    => out.name = LastName(Eir, 1, Padded(<<>>))

(* ---------------- bt_open_device, bt_start_le_advertising ---------------- *)
\* C19: bt_open_device is all-or-nothing: when it returns a non-NULL error
\* (socket, device-info or open failure) the raw HCI socket is closed, no
\* controller descriptor is open and no name or address allocation is
\* outstanding; *dd, *name and *local_address are populated only when it
\* returns NULL.
C19_AllOrNothing ==
  (fn = "bt_open_device" /\ pc = "returned" /\ err # "NULL") =>
    /\ fds = {CallerSock}
    /\ hcidev = {}
    /\ heap.name = 0 /\ heap.addr = 0
    /\ name = "NULL" /\ local_address = NullStr

\* C20: bt_start_le_advertising makes its requests in a fixed order: first
\* set-advertising-parameters (min_interval = max_interval = adv_interval_ms,
\* type 0, channel map 7), then enable-advertising with parameter 1; when the
\* transport of the first fails it returns an error and the enable request is
\* not made; the enable request is never made before the parameters request.
C20_ParamsThenEnable ==
  fn = "bt_start_le_advertising" =>
    /\ Len(syscalls) <= 2
    /\ \A i \in 1..Len(syscalls) :
         syscalls[i].call = "hci_send_req" /\ syscalls[i].fd = arg.dd
    /\ Len(syscalls) >= 1 =>
         /\ syscalls[1].n = OCF_LE_SET_ADVERTISING_PARAMETERS
         /\ SubSeq(syscalls[1].addr, 1, 3) = <<arg.interval, arg.interval, 0>>
         /\ syscalls[1].addr[12] = 7
    /\ Len(syscalls) = 2 =>
         /\ syscalls[1].ok
         /\ syscalls[2].n = OCF_LE_SET_ADVERTISE_ENABLE
         /\ syscalls[2].addr = <<1>>
    /\ pc # "crashed"
    /\ pc = "returned" =>
         /\ Len(syscalls) >= 1
         /\ IF syscalls[1].ok
            THEN /\ Len(syscalls) = 2
                 /\ err = (IF syscalls[2].ok THEN "NULL" ELSE "CommandFailed")
            ELSE Len(syscalls) = 1 /\ err = "CommandFailed"
C20_Witness ==
  /\ fn = "bt_start_le_advertising"
  /\ pc = "returned"
  /\ err = "NULL"
  /\ Len(syscalls) = 2
  /\ adv.enable = 1

====
